---- MODULE Spec2Model ----
(***************************************************************************)
(* Block-timestamp resolution of rarcifa/ethereum-evm-client               *)
(* (src/src/utils/blockTime.ts) over the JSON-RPC block fetch              *)
(* (ethMethods.getBlockByNumber).                                          *)
(*                                                                         *)
(* The chain is a finite list of blocks 0..head with non-decreasing        *)
(* timestamps.  A resolver session owns one State object; calls of         *)
(* getBlockFromTimestamp run on it, one at a time (Spec) or interleaved at *)
(* every awaited fetchBlockInfo (SpecConc).                                *)
(*                                                                         *)
(* JavaScript numbers are modelled as integers plus three special values   *)
(* (NaN, +Infinity, -Infinity).  averageBlockTime is a double in the code; *)
(* it is modelled as an exact fraction <<n, d>>.  For numerators and       *)
(* denominators below 9 the double computation Math.ceil(x / avg) and the  *)
(* exact one agree, so within the bounds used here the model computes what *)
(* the code computes.                                                      *)
(***************************************************************************)
EXTENDS Integers, Sequences, FiniteSets, TLC

\* ---------------------------------------------------------------- bounds
MaxBlock == 4      \* the head of the chain is a block number in 0..MaxBlock
MaxTime == 3       \* block timestamps lie in 1..MaxTime
MaxCalls == 2      \* resolution calls per session
MaxWord == 4       \* addresses and token ids are '0x1' .. '0x<MaxWord>'
MaxLen == 4        \* strings handed to format.cleanHexString have 0..MaxLen characters

\* ------------------------------------------------------ JavaScript values
PosInf == 1000000          \* Infinity
NegInf == 0 - PosInf       \* -Infinity
NaN == 2 * PosInf          \* NaN: parseInt of a non-numeric string, 0/0, ...
Latest == 3 * PosInf       \* the block tag 'latest'
Undef == 4 * PosInf        \* a field of an absent (undefined) Block

IsFinite(x) == x # NaN /\ x # PosInf /\ x # NegInf

\* a + b on JavaScript numbers
Add(a, b) ==
    IF a = NaN \/ b = NaN THEN NaN
    ELSE IF a = PosInf THEN (IF b = NegInf THEN NaN ELSE PosInf)
    ELSE IF a = NegInf THEN (IF b = PosInf THEN NaN ELSE NegInf)
    ELSE IF ~IsFinite(b) THEN b
    ELSE a + b

Neg(a) == IF a = NaN THEN NaN ELSE 0 - a

Sub(a, b) == Add(a, Neg(b))

\* a < b, a > b, a >= b on JavaScript numbers: false as soon as one is NaN
Lt(a, b) == a # NaN /\ b # NaN /\ a < b
Gt(a, b) == Lt(b, a)
Ge(a, b) == a # NaN /\ b # NaN /\ a >= b

RECURSIVE Gcd(_, _)
Gcd(a, b) == IF b = 0 THEN a ELSE Gcd(b, a % b)

Abs(a) == IF a < 0 THEN 0 - a ELSE a

\* Math.ceil(a / b) for integers a and b > 0
CeilDiv(a, b) == 0 - ((0 - a) \div b)

\* A JavaScript number that need not be an integer, as a fraction <<n, d>>
\* with d > 0 in lowest terms; <<0, 0>> is NaN, <<1, 0>> and <<-1, 0>> are
\* the infinities, and NoAverage is undefined.
NaNAvg == <<0, 0>>
InfAvg == <<1, 0>>
NoAverage == <<0, 0 - 1>>

\* n / d on JavaScript integers (or NaN)
Ratio(n, d) ==
    IF n = NaN \/ d = NaN THEN NaNAvg
    ELSE IF d = 0 THEN (IF n = 0 THEN NaNAvg ELSE IF n > 0 THEN InfAvg ELSE <<0 - 1, 0>>)
    ELSE LET g == Gcd(Abs(n), Abs(d))
             s == IF d < 0 THEN 0 - 1 ELSE 1
         IN  <<(s * n) \div g, (s * d) \div g>>

\* Math.abs of a fraction
AbsRatio(r) == <<Abs(r[1]), r[2]>>

\* !x for a fraction: undefined, NaN and 0 are falsy
Falsy(r) == r = NoAverage \/ r = NaNAvg \/ (r[1] = 0 /\ r[2] > 0)

\* x === 0 for a fraction
IsZero(r) == r[1] = 0 /\ r[2] > 0

\* Math.ceil(x / r) for a JavaScript integer (or NaN) x and a fraction r
CeilQuot(x, r) ==
    IF x = NaN \/ r = NaNAvg \/ r = NoAverage THEN NaN
    ELSE IF r[2] = 0 THEN 0
    ELSE IF r[1] = 0 THEN (IF x = 0 THEN NaN ELSE IF x > 0 THEN PosInf ELSE NegInf)
    ELSE IF r[1] > 0 THEN CeilDiv(x * r[2], r[1])
    ELSE CeilDiv((0 - x) * r[2], 0 - r[1])

\* ------------------------------------------------------------------ Block
Block(n, t) == [block |-> n, timestamp |-> t]

\* an absent Block (state.firstBlock / state.latestBlock before they are set)
NoBlock == Block(Undef, Undef)

\* ------------------------------------------------------------ the session
Procs == {1, 2}    \* callers that may have a resolution call in flight

VARIABLES
    chain,           \* chain[k + 1] is the timestamp of block k (the node's data)
    fault,           \* "armed": the node may misbehave once; then how it did
    state,           \* the State object shared by every call of the session
    pc,              \* pc[p]: where caller p's getBlockFromTimestamp stands
    timestamp,       \* timestamp[p]: the argument of p's call
    awaiting,        \* awaiting[p]: the fetchBlockInfo call p is suspended in
    predictedBlock,  \* predictedBlock[p]: the candidate of findOptimalBlock
    result,          \* result[p]: the block number p's last call returned
    error,           \* error[p]: the error p's last call threw ("" if none)
    calls,           \* number of calls started in the session
    log,             \* log[p]: the node requests of p's current call, in order
    invoked,         \* invoked[id]: node requests made for id in the session
    probes,          \* probes[p]: the candidates p's current call has fetched
    resolved,        \* the <<timestamp, block>> pairs returned in the session
    unit             \* a function called on its own: its arguments and outcome

vars == <<chain, fault, state, pc, timestamp, awaiting, predictedBlock, result,
          error, calls, log, invoked, probes, resolved, unit>>

ChainHead == Len(chain) - 1
TimestampOf(k) == chain[k + 1]
OnChain(k) == k \in 0..ChainHead

\* the timestamps a caller may ask for: before, inside and after the chain
Targets == 0..(MaxTime + 1)

Chains ==
    {c \in UNION {[1..n -> 1..MaxTime] : n \in 1..(MaxBlock + 1)} :
        \A i \in 1..(Len(c) - 1) : c[i] <= c[i + 1]}

\* chains one block longer, over one more timestamp
LongChains ==
    {c \in UNION {[1..n -> 1..(MaxTime + 1)] : n \in 1..(MaxBlock + 2)} :
        \A i \in 1..(Len(c) - 1) : c[i] <= c[i + 1]}

\* ------------------------------------------------------- the JSON-RPC node
Base == 16

\* the hexadecimal digits of n >= 0, most significant first
RECURSIVE Hex(_)
Hex(n) == IF n < Base THEN <<n>> ELSE Append(Hex(n \div Base), n % Base)

\* a character that is no hexadecimal digit
NonHex == Base

\* parseInt(s, 16): the value of the longest prefix of hexadecimal digits,
\* NaN when the first character is not one
RECURSIVE ParsePrefix(_, _)
ParsePrefix(s, acc) ==
    IF s = <<>> \/ Head(s) >= Base THEN acc
    ELSE ParsePrefix(Tail(s), acc * Base + Head(s))

ParseInt(s) == IF s = <<>> \/ Head(s) >= Base THEN NaN ELSE ParsePrefix(s, 0)

\* the result field of the node's answer for a block that exists
Payload(k) == [number |-> Hex(k), timestamp |-> Hex(TimestampOf(k))]

\* the block a request for identifier id names, if any
Named(id) == IF id = Latest THEN ChainHead ELSE id

Exists(id) == id = Latest \/ OnChain(id)

NoData == [number |-> <<>>, timestamp |-> <<>>]

\* the answers ethMethods.getBlockByNumber can give for id: "ok" with the
\* result payload, or "throw" (no result, an RPC error, a network error).
\* With a fault armed the node may also fail or answer with a payload
\* whose number or timestamp is not hexadecimal.
getBlockByNumber(id) ==
    (IF Exists(id)
        THEN {[kind |-> "ok", fault |-> "none", data |-> Payload(Named(id))]}
        ELSE {[kind |-> "throw", fault |-> "none", data |-> NoData]})
    \cup
    (IF fault = "armed" /\ Exists(id)
        THEN {[kind |-> "throw", fault |-> "failed", data |-> NoData]}
             \cup {[kind |-> "ok", fault |-> "garbled",
                    data |-> [number |-> n, timestamp |-> t]] :
                      <<n, t>> \in {<<<<NonHex>>, Payload(Named(id)).timestamp>>,
                                    <<Payload(Named(id)).number, <<NonHex>>>>,
                                    <<<<NonHex>>, <<NonHex>>>>}}
        ELSE {})

\* every request so far was answered, with the chain's data
Served == fault \in {"none", "armed"}

\* every answer so far was well-formed
WellFormed == fault # "garbled"

\* -------------------------------------------------------------- the State
\* the State a client starts with: nothing cached, no boundaries, no average
NewState ==
    [cachedBlocks |-> <<>>,
     checkedBlocks |-> <<>>,
     firstBlock |-> NoBlock,
     latestBlock |-> NoBlock,
     averageBlockTime |-> NoAverage,
     requests |-> 0]

NoFetch == [block |-> Undef, hit |-> FALSE, value |-> NoBlock]

\* no function is called on its own during a session
NoUnit == [of |-> "none"]

\* a session before its first call
Fresh ==
    /\ state = NewState
    /\ pc = [p \in Procs |-> "idle"]
    /\ timestamp = [p \in Procs |-> 0]
    /\ awaiting = [p \in Procs |-> NoFetch]
    /\ predictedBlock = [p \in Procs |-> NoBlock]
    /\ result = [p \in Procs |-> Undef]
    /\ error = [p \in Procs |-> ""]
    /\ calls = 0
    /\ log = [p \in Procs |-> <<>>]
    /\ invoked = <<>>
    /\ probes = [p \in Procs |-> <<>>]
    /\ resolved = {}

Init ==
    /\ chain \in Chains
    /\ fault \in {"none", "armed"}
    /\ unit = NoUnit
    /\ state = NewState
    /\ pc = [p \in Procs |-> "idle"]
    /\ timestamp = [p \in Procs |-> 0]
    /\ awaiting = [p \in Procs |-> NoFetch]
    /\ predictedBlock = [p \in Procs |-> NoBlock]
    /\ result = [p \in Procs |-> Undef]
    /\ error = [p \in Procs |-> ""]
    /\ calls = 0
    /\ log = [p \in Procs |-> <<>>]
    /\ invoked = <<>>
    /\ probes = [p \in Procs |-> <<>>]
    /\ resolved = {}

\* ---------------------------------------------------------- fetchBlockInfo
\* no lookup in state.cachedBlocks
Uncached(s, block) == block \in {}

\* state.cachedBlocks[blockKey] is set.  blockKey is block.toString(): two
\* identifiers have the same key exactly when they are the same number, or
\* both the tag 'latest', so the identifier itself serves as the key.
Cached(s, block) == block \in DOMAIN s.cachedBlocks

\* the Block built from the node's answer
Parse(data) == Block(ParseInt(data.number), ParseInt(data.timestamp))

\* the Block is kept, the request is not counted
StoreUncounted(s, block, blk) == [s EXCEPT !.cachedBlocks = (block :> blk) @@ @]

\* the request is counted, the Block is not kept
Forget(s, block, blk) == [s EXCEPT !.requests = @ + 1]

\* the State after the answer for block was parsed into blk
Store(s, block, blk) ==
    [s EXCEPT !.cachedBlocks = (block :> blk) @@ @, !.requests = @ + 1]

Count(f, k) == IF k \in DOMAIN f THEN f[k] ELSE 0

\* What a call has done so far: the node requests it made, each with its
\* answer ("pending", "ok", "throw"), and the candidates it fetched.
NewTrail == [log |-> <<>>, probes |-> <<>>]

Trail(p) == [log |-> log[p], probes |-> probes[p]]

\* Caller p calls fetchBlockInfo(block, s) and awaits it at `at`: on a cache
\* hit the stored Block is the value of the call, otherwise the request goes
\* to the node.  h is the trail of p's call up to here.
Suspend(p, s, block, at, pb, h) ==
    /\ state' = s
    /\ pc' = [pc EXCEPT ![p] = at]
    /\ predictedBlock' = [predictedBlock EXCEPT ![p] = pb]
    /\ result' = [result EXCEPT ![p] = Undef]
    /\ error' = [error EXCEPT ![p] = ""]
    /\ resolved' = resolved
    /\ probes' = [probes EXCEPT ![p] =
                    IF at \in {"predicted", "next"} THEN Append(h.probes, block)
                    ELSE h.probes]
    /\ IF Cached(s, block)
          THEN /\ awaiting' = [awaiting EXCEPT ![p] =
                                 [block |-> block, hit |-> TRUE,
                                  value |-> s.cachedBlocks[block]]]
               /\ log' = [log EXCEPT ![p] = h.log]
               /\ invoked' = invoked
          ELSE /\ awaiting' = [awaiting EXCEPT ![p] =
                                 [block |-> block, hit |-> FALSE, value |-> NoBlock]]
               /\ log' = [log EXCEPT ![p] =
                            Append(h.log, [block |-> block, answer |-> "pending"])]
               /\ invoked' = (block :> Count(invoked, block) + 1) @@ invoked

\* p's call ends by throwing e
Throw(p, s, e, h) ==
    /\ state' = s
    /\ pc' = [pc EXCEPT ![p] = "threw"]
    /\ error' = [error EXCEPT ![p] = e]
    /\ result' = [result EXCEPT ![p] = Undef]
    /\ awaiting' = [awaiting EXCEPT ![p] = NoFetch]
    /\ predictedBlock' = [predictedBlock EXCEPT ![p] = NoBlock]
    /\ log' = [log EXCEPT ![p] = h.log]
    /\ probes' = [probes EXCEPT ![p] = h.probes]
    /\ UNCHANGED <<invoked, resolved>>

\* p's call returns formatResult(T, block)
Return(p, s, T, block, h) ==
    /\ state' = s
    /\ pc' = [pc EXCEPT ![p] = "returned"]
    /\ result' = [result EXCEPT ![p] = block]
    /\ error' = [error EXCEPT ![p] = ""]
    /\ awaiting' = [awaiting EXCEPT ![p] = NoFetch]
    /\ predictedBlock' = [predictedBlock EXCEPT ![p] = NoBlock]
    /\ log' = [log EXCEPT ![p] = h.log]
    /\ probes' = [probes EXCEPT ![p] = h.probes]
    /\ resolved' = resolved \cup {<<T, block>>}
    /\ invoked' = invoked

\* what the await of p's fetchBlockInfo call can resume with
Answers(p) ==
    IF awaiting[p].hit
        THEN {[kind |-> "hit", fault |-> "none", data |-> NoData]}
        ELSE getBlockByNumber(awaiting[p].block)

\* a rejection that the await lets through
Swallowed(a) == a.kind = "rejected"

\* the awaited request was rejected: the await throws
Rejected(a) == a.kind = "throw"

\* the Block the call returns, and the State it leaves, for answer a
Fetched(p, a) == IF a.kind = "hit" THEN awaiting[p].value ELSE Parse(a.data)

After(p, a) ==
    IF a.kind = "hit" THEN state
    ELSE Store(state, awaiting[p].block, Fetched(p, a))

\* the trail of p's call once answer a has arrived
Settled(p, a) ==
    IF a.kind = "hit" THEN Trail(p)
    ELSE [log |-> [log[p] EXCEPT ![Len(log[p])].answer = a.kind],
          probes |-> probes[p]]

\* ------------------------------------------------------ calculateNextBlock
\* state.checkedBlocks[timestamp] || []
Checked(s, T) == IF T \in DOMAIN s.checkedBlocks THEN s.checkedBlocks[T] ELSE <<>>

\* Array.prototype.includes
Includes(arr, x) == \E i \in 1..Len(arr) : arr[i] = x

\* currentBlock + skip, capped at the latest block
Capped(currentBlock, skip, s) ==
    LET nextBlock == Add(currentBlock, skip)
    IN  IF s.latestBlock # NoBlock /\ Gt(nextBlock, s.latestBlock.block)
            THEN s.latestBlock.block
            ELSE nextBlock

\* skip < 0 ? --skip : ++skip
Widen(skip) == IF Lt(skip, 0) THEN Sub(skip, 1) ELSE Add(skip, 1)

\* the candidate is returned as it is
Unclamped(nextBlock) == nextBlock

\* nextBlock < 1 ? 1 : nextBlock
AtLeastOne(nextBlock) == IF Lt(nextBlock, 1) THEN 1 ELSE nextBlock

\* the candidate is appended to the history of every timestamp
RecordForAll(s, T, nextBlock) ==
    [s EXCEPT !.checkedBlocks =
        (T :> Append(Checked(s, T), nextBlock))
        @@ [k \in DOMAIN @ |-> Append(@[k], nextBlock)]]

\* state.checkedBlocks[timestamp] = [...(state.checkedBlocks[timestamp] || []), nextBlock]
Record(s, T, nextBlock) ==
    [s EXCEPT !.checkedBlocks = (T :> Append(Checked(s, T), nextBlock)) @@ @]

\* The next block number to fetch: [result, state] with the State it leaves.
\* The code retries by calling itself with the skip widened.  When the retry
\* computes the same block again every later retry does too, and the
\* recursion ends in a RangeError (call stack exhausted): overflow.
RECURSIVE calculateNextBlock(_, _, _, _)
calculateNextBlock(T, currentBlock, skip, s) ==
    LET nextBlock == Capped(currentBlock, skip, s)
    IN  IF Includes(Checked(s, T), nextBlock)
            THEN IF Capped(currentBlock, Widen(skip), s) = nextBlock
                    THEN [overflow |-> TRUE, result |-> nextBlock, state |-> s]
                    ELSE calculateNextBlock(T, currentBlock, Widen(skip), s)
            ELSE [overflow |-> FALSE,
                  result |-> AtLeastOne(nextBlock),
                  state |-> Record(s, T, nextBlock)]

\* ---------------------------------------------------------- isOptimalBlock
\* the candidate's own timestamp is not looked at
AnyCandidate(T, blk) == blk.timestamp = blk.timestamp

\* blockTimestamp >= timestamp: the previous block has to be fetched
AtOrAfter(T, blk) == Ge(blk.timestamp, T)

\* previousBlock.timestamp <= timestamp
BeforeOrAt(T, previousBlock) ==
    previousBlock.timestamp # NaN /\ previousBlock.timestamp <= T

\* previousBlock.timestamp < timestamp
Before(T, previousBlock) == Lt(previousBlock.timestamp, T)

\* -------------------------------------------------------- findOptimalBlock
\* the skip for a candidate that is not optimal
Skip(T, blk, s) ==
    LET difference == Sub(T, blk.timestamp)
        skip == CeilQuot(difference,
                         IF IsZero(s.averageBlockTime) THEN <<1, 1>>
                         ELSE s.averageBlockTime)
    IN  IF skip = 0 THEN (IF Lt(difference, 0) THEN 0 - 1 ELSE 1) ELSE skip

\* the average block time after the step from blk to nextPredictedBlock
Average(blk, nextPredictedBlock) ==
    AbsRatio(Ratio(Sub(blk.timestamp, nextPredictedBlock.timestamp),
                   Sub(blk.block, nextPredictedBlock.block)))

\* the candidate blk is not optimal: fetch the next one
Advance(p, s, T, blk, h) ==
    LET next == calculateNextBlock(T, blk.block, Skip(T, blk, s), s)
    IN  IF next.overflow
            THEN Throw(p, s, "RangeError", h)
            ELSE Suspend(p, next.state, next.result, "next", blk, h)

\* findOptimalBlock(T, blk, s) up to its first await
findOptimalBlock(p, s, T, blk, h) ==
    IF AtOrAfter(T, blk)
        THEN Suspend(p, s, Sub(blk.block, 1), "previous", blk, h)
        ELSE Advance(p, s, T, blk, h)

\* ------------------------------------------------------ initializeBoundaries
\* the average block time of the whole chain
BoundaryAverage(s) ==
    Ratio(Sub(s.latestBlock.timestamp, s.firstBlock.timestamp),
          Sub(s.latestBlock.block, 1))

\* --------------------------------------------------- getBlockFromTimestamp
NeedsBoundaries(s) ==
    s.firstBlock = NoBlock \/ s.latestBlock = NoBlock \/ Falsy(s.averageBlockTime)

\* timestamp >= state.latestBlock.timestamp, answered with the first block
PastLatest(T, s) == s.latestBlock # NoBlock /\ Ge(T, s.latestBlock.timestamp)

BeforeFirst(T, s) == s.firstBlock # NoBlock /\ Lt(T, s.firstBlock.timestamp)

\* timestamp > state.latestBlock.timestamp
AfterLatestOnly(T, s) == s.latestBlock # NoBlock /\ Gt(T, s.latestBlock.timestamp)

AfterLatest(T, s) == s.latestBlock # NoBlock /\ Ge(T, s.latestBlock.timestamp)

\* the first candidate, by interpolation with the average of the boundaries
GuessByBoundaries(T, s) ==
    CeilQuot(Sub(T, s.firstBlock.timestamp), BoundaryAverage(s))

\* the first candidate, by interpolation from the first block
Guess(T, s) == CeilQuot(Sub(T, s.firstBlock.timestamp), s.averageBlockTime)

\* getBlockFromTimestamp once the boundaries are there
Resolve(p, s, T, h) ==
    IF BeforeFirst(T, s) THEN Return(p, s, T, 1, h)
    ELSE IF AfterLatest(T, s) THEN Return(p, s, T, s.latestBlock.block, h)
    ELSE LET cleared == [s EXCEPT !.checkedBlocks = (T :> <<>>) @@ @]
         IN  Suspend(p, cleared, Guess(T, cleared), "predicted", NoBlock, h)

\* ----------------------------------------------------------------- actions
Idle(p) == pc[p] \in {"idle", "returned", "threw"}

\* caller p calls getBlockFromTimestamp(T, state)
getBlockFromTimestamp(p, T) ==
    /\ Idle(p)
    /\ calls < MaxCalls
    /\ calls' = calls + 1
    /\ timestamp' = [timestamp EXCEPT ![p] = T]
    /\ UNCHANGED <<chain, fault, unit>>
    /\ IF NeedsBoundaries(state)
          THEN Suspend(p, state, Latest, "latest", NoBlock, NewTrail)
          ELSE Resolve(p, state, T, NewTrail)

\* the await of an Answers(p) element a
Resumes(p, at, a) ==
    /\ pc[p] = at
    /\ a \in Answers(p)
    /\ fault' = IF a.fault = "none" THEN fault ELSE a.fault
    /\ UNCHANGED <<chain, calls, timestamp, unit>>

\* initializeBoundaries resumes with the latest block
latestFetched(p) ==
    \E a \in Answers(p) :
        /\ Resumes(p, "latest", a)
        /\ IF Rejected(a)
              THEN Throw(p, state, "UpstreamError", Settled(p, a))
              ELSE Suspend(p, [After(p, a) EXCEPT !.latestBlock = Fetched(p, a)],
                           1, "first", NoBlock, Settled(p, a))

\* initializeBoundaries resumes with the first block and returns
firstFetched(p) ==
    \E a \in Answers(p) :
        /\ Resumes(p, "first", a)
        /\ IF Rejected(a)
              THEN Throw(p, state, "UpstreamError", Settled(p, a))
              ELSE LET s == [After(p, a) EXCEPT !.firstBlock = Fetched(p, a)]
                   IN  Resolve(p, [s EXCEPT !.averageBlockTime = BoundaryAverage(s)],
                               timestamp[p], Settled(p, a))

\* getBlockFromTimestamp resumes with the first candidate
predictedFetched(p) ==
    \E a \in Answers(p) :
        /\ Resumes(p, "predicted", a)
        /\ IF Rejected(a)
              THEN Throw(p, state, "UpstreamError", Settled(p, a))
              ELSE findOptimalBlock(p, After(p, a), timestamp[p], Fetched(p, a),
                                    Settled(p, a))

\* isOptimalBlock resumes with the block before the candidate
previousFetched(p) ==
    \E a \in Answers(p) :
        /\ Resumes(p, "previous", a)
        /\ IF Rejected(a)
              THEN Throw(p, state, "UpstreamError", Settled(p, a))
              ELSE IF Before(timestamp[p], Fetched(p, a))
                      THEN Return(p, After(p, a), timestamp[p],
                                  predictedBlock[p].block, Settled(p, a))
                      ELSE Advance(p, After(p, a), timestamp[p], predictedBlock[p],
                                   Settled(p, a))

\* findOptimalBlock resumes with the next candidate
nextFetched(p) ==
    \E a \in Answers(p) :
        /\ Resumes(p, "next", a)
        /\ IF Rejected(a)
              THEN Throw(p, state, "UpstreamError", Settled(p, a))
              ELSE findOptimalBlock(
                       p,
                       [After(p, a) EXCEPT !.averageBlockTime =
                           Average(predictedBlock[p], Fetched(p, a))],
                       timestamp[p], Fetched(p, a), Settled(p, a))

\* one caller, one call at a time
Next ==
    \/ \E T \in Targets : getBlockFromTimestamp(1, T)
    \/ latestFetched(1)
    \/ firstFetched(1)
    \/ predictedFetched(1)
    \/ previousFetched(1)
    \/ nextFetched(1)

Spec == Init /\ [][Next]_vars

\* Callers that overlap: each caller makes one call, for a timestamp of its
\* own, and every await of fetchBlockInfo is a point where the other caller's
\* continuation may run.
InFlight(T) == \E q \in Procs : pc[q] # "idle" /\ timestamp[q] = T

NextConc ==
    \/ \E p \in Procs, T \in Targets :
          pc[p] = "idle" /\ ~InFlight(T) /\ getBlockFromTimestamp(p, T)
    \/ \E p \in Procs : latestFetched(p)
    \/ \E p \in Procs : firstFetched(p)
    \/ \E p \in Procs : predictedFetched(p)
    \/ \E p \in Procs : previousFetched(p)
    \/ \E p \in Procs : nextFetched(p)

\* overlapping callers on a node that answers every request for a block it has
InitConc == Init /\ fault = "none"

SpecConc == InitConc /\ [][NextConc]_vars

\* sessions on longer chains, on a node that answers every request for a
\* block it has
InitLong == chain \in LongChains /\ fault = "none" /\ unit = NoUnit /\ Fresh

SpecLong == InitLong /\ [][Next]_vars

\* Sessions during which the chain grows: between two calls the node gets a
\* new head block.
blockMined ==
    /\ calls >= 1
    /\ Idle(1)
    /\ Len(chain) <= MaxBlock
    /\ \E t \in chain[Len(chain)]..MaxTime : chain' = Append(chain, t)
    /\ UNCHANGED <<fault, state, pc, timestamp, awaiting, predictedBlock, result,
                   error, calls, log, invoked, probes, resolved, unit>>

NextGrow == Next \/ blockMined

SpecGrow == InitConc /\ [][NextGrow]_vars

\* ------------------------------------------- functions called on their own
\* the session stays as it is while a function is called on its own
Parked == chain = <<1>> /\ fault = "none" /\ Fresh

session == <<chain, fault, state, pc, timestamp, awaiting, predictedBlock,
             result, error, calls, log, invoked, probes, resolved>>

\* calculateNextBlock called again and again for one timestamp on one State,
\* as a resolution call does, with any current block and any non-zero skip.
\* The State knows the latest block; its history for the timestamp is empty
\* or holds the latest block already.
Skips == ((0 - MaxBlock)..MaxBlock) \ {0}

InitNextBlock ==
    /\ Parked
    /\ \E latest \in 1..MaxBlock, T \in 1..MaxTime :
          \E checked \in {<<>>, <<latest>>} :
              unit = [of |-> "calculateNextBlock",
                      timestamp |-> T,
                      state |-> [NewState EXCEPT
                                   !.latestBlock = Block(latest, MaxTime),
                                   !.checkedBlocks = (T :> checked)],
                      returned |-> <<>>,
                      overflow |-> FALSE]

nextBlockCalled(currentBlock, skip) ==
    /\ ~unit.overflow
    /\ Len(unit.returned) < MaxCalls
    /\ LET next == calculateNextBlock(unit.timestamp, currentBlock, skip, unit.state)
       IN  unit' = [unit EXCEPT
                      !.state = next.state,
                      !.returned = IF next.overflow THEN @ ELSE Append(@, next.result),
                      !.overflow = next.overflow]
    /\ UNCHANGED session

NextNextBlock ==
    \E currentBlock \in 1..unit.state.latestBlock.block, skip \in Skips :
        nextBlockCalled(currentBlock, skip)

SpecNextBlock == InitNextBlock /\ [][NextNextBlock]_vars

\* The skip findOptimalBlock derives for a candidate that is not optimal,
\* for any target, candidate timestamp and average block time (a positive
\* quotient, zero, or undefined).
Averages ==
    {NoAverage, <<0, 1>>} \cup {Ratio(n, d) : n \in 1..MaxTime, d \in 1..MaxBlock}

InitSkip ==
    /\ Parked
    /\ \E T \in Targets, t \in 1..MaxTime, avg \in Averages :
          unit = [of |-> "findOptimalBlock",
                  timestamp |-> T,
                  predictedBlock |-> Block(1, t),
                  state |-> [NewState EXCEPT !.averageBlockTime = avg],
                  skip |-> Undef]

skipDerived ==
    /\ unit.skip = Undef
    /\ unit' = [unit EXCEPT
                  !.skip = Skip(unit.timestamp, unit.predictedBlock, unit.state)]
    /\ UNCHANGED session

SpecSkip == InitSkip /\ [][skipDerived]_vars

\* The average block time findOptimalBlock stores after it fetched the next
\* candidate, for any two blocks of one chain and any average stored before.
OfOneChain(a, b) ==
    /\ a.block < b.block => a.timestamp <= b.timestamp
    /\ b.block < a.block => b.timestamp <= a.timestamp
    /\ a.block = b.block => a.timestamp = b.timestamp

InitAverage ==
    /\ Parked
    /\ \E n1 \in 1..MaxBlock, n2 \in 1..MaxBlock, t1 \in 1..MaxTime, t2 \in 1..MaxTime :
          \E avg \in Averages :
              /\ OfOneChain(Block(n1, t1), Block(n2, t2))
              /\ unit = [of |-> "averageBlockTime",
                         predictedBlock |-> Block(n1, t1),
                         nextPredictedBlock |-> Block(n2, t2),
                         before |-> avg,
                         state |-> [NewState EXCEPT !.averageBlockTime = avg],
                         updated |-> FALSE]

averageUpdated ==
    /\ ~unit.updated
    /\ unit' = [unit EXCEPT
                  !.state.averageBlockTime =
                      Average(unit.predictedBlock, unit.nextPredictedBlock),
                  !.updated = TRUE]
    /\ UNCHANGED session

SpecAverage == InitAverage /\ [][averageUpdated]_vars

\* ------------------------------------------------------------ erc1155 calls
\* A string is the sequence of its characters: a hexadecimal digit is its
\* value, 'x' is CharX.
CharX == Base + 1

\* the string '0x' followed by digits
Str0x(digits) == <<0, CharX>> \o digits

\* s.substring(from)
Substring(s, from) == SubSeq(s, from + 1, Len(s))

\* s.padStart(width, ch)
PadStart(s, width, ch) ==
    IF Len(s) >= width THEN s ELSE [i \in 1..(width - Len(s)) |-> ch] \o s

PadWidth == 64

\* Erc1155.BalanceOf = '0x00fdd58e'
Erc1155BalanceOf == Str0x(<<0, 0, 15, 13, 13, 5, 8, 14>>)

\* constructEthMethodPayload(params, method) with the default tag and id
constructEthMethodPayload(params, method) ==
    [jsonrpc |-> "2.0", method |-> method, params |-> <<params, "latest">>, id |-> 1]

\* the payload erc1155.getBalanceOf(accountAddress, tokenId, contractAddress,
\* ethereumInstance) posts
erc1155GetBalanceOf(accountAddress, tokenId, contractAddress) ==
    LET paddedTokenId == PadStart(Substring(tokenId, 2), PadWidth, 0)
        paddedAddress == PadStart(Substring(accountAddress, 2), PadWidth, 0)
        param == Erc1155BalanceOf \o paddedAddress \o paddedTokenId
    IN  constructEthMethodPayload([to |-> contractAddress, data |-> param], "eth_call")

\* client.erc1155.getBalanceOf(accountAddress, contractAddress, tokenId):
\* the three arguments are handed on in this order
clientErc1155GetBalanceOf(accountAddress, contractAddress, tokenId) ==
    erc1155GetBalanceOf(accountAddress, contractAddress, tokenId)

Words == {Str0x(<<d>>) : d \in 1..MaxWord}

InitErc1155 ==
    /\ Parked
    /\ \E a \in Words, c \in Words, t \in Words :
          unit = [of |-> "getBalanceOf",
                  accountAddress |-> a,
                  contractAddress |-> c,
                  tokenId |-> t,
                  posted |-> <<>>,
                  outcome |-> "pending"]

\* the call posts its payload; the node's response has a result, and the
\* call returns the formatted balance, or it has none (or an error), and
\* the call throws
getBalanceOf ==
    /\ unit.outcome = "pending"
    /\ \E outcome \in {"returned", "threw"} :
          unit' = [unit EXCEPT
                     !.posted = <<clientErc1155GetBalanceOf(
                                    unit.accountAddress, unit.contractAddress,
                                    unit.tokenId)>>,
                     !.outcome = outcome]
    /\ UNCHANGED session

SpecErc1155 == InitErc1155 /\ [][getBalanceOf]_vars

\* ---------------------------------------------------- format.cleanHexString
\* hexString.startsWith('0x')
StartsWith0x(s) == Len(s) >= 2 /\ s[1] = 0 /\ s[2] = CharX

\* s without the '0' characters it begins with
RECURSIVE StripZeros(_)
StripZeros(s) ==
    IF s # <<>> /\ Head(s) = 0 THEN StripZeros(Tail(s)) ELSE s

\* hexString.replace(/^(0x)0+/, '$1'): the run of '0' after a leading '0x'
\* is removed; a string the pattern does not match is left as it is
ReplaceLeadingZeros(s) ==
    IF StartsWith0x(s) THEN Str0x(StripZeros(Substring(s, 2))) ELSE s

\* what a call of format.cleanHexString(hexString) ends with; the empty
\* string is the one falsy string of `replaced || '0x0'`
cleanHexString(hexString) ==
    IF ~StartsWith0x(hexString)
    THEN [outcome |-> "threw",
          error |-> "[format/cleanHexString] error: Invalid hex string format",
          value |-> <<>>]
    ELSE LET replaced == ReplaceLeadingZeros(hexString)
         IN  [outcome |-> "returned",
              error |-> "",
              value |-> IF replaced = <<>> THEN Str0x(<<0>>) ELSE replaced]

\* the characters that matter to the function: '0', another digit, and 'x'
HexChars == {0, 1, CharX}

HexStrings == UNION {[1..n -> HexChars] : n \in 0..MaxLen}

NotCalled == [outcome |-> "pending", error |-> "", value |-> <<>>]

InitCleanHex ==
    /\ Parked
    /\ \E s \in HexStrings :
          unit = [of |-> "cleanHexString",
                  hexString |-> s,
                  first |-> NotCalled,
                  second |-> NotCalled]

\* format.cleanHexString is called on the string, and then on what the
\* first call returned
cleanHexStringCalled ==
    /\ unit.second = NotCalled
    /\ \/ /\ unit.first = NotCalled
          /\ unit' = [unit EXCEPT !.first = cleanHexString(unit.hexString)]
       \/ /\ unit.first.outcome = "returned"
          /\ unit' = [unit EXCEPT !.second = cleanHexString(unit.first.value)]
    /\ UNCHANGED session

SpecCleanHex == InitCleanHex /\ [][cleanHexStringCalled]_vars

\* ------------------------------------------------------------- properties
\* the chain has a block 1, and T lies between the timestamps of block 1
\* (inclusive) and of the head (exclusive)
InRange(T) == ChainHead >= 1 /\ TimestampOf(1) <= T /\ T < TimestampOf(ChainHead)

\* block B is at or after T and the block before it is before T
Optimal(T, B) ==
    /\ B \in 1..ChainHead
    /\ TimestampOf(B) >= T
    /\ TimestampOf(B - 1) < T

\* C1: every block number a call returned for a target T between the
\* boundaries, in any sequence of calls on the State, names a block whose
\* timestamp is >= T and whose predecessor's timestamp is < T.
C1_ReturnedBlockIsOptimal ==
    \A r \in resolved : InRange(r[1]) => Optimal(r[1], r[2])

\* a second call of the session returned after a search of several candidates
C1_Witness ==
    /\ calls >= 2
    /\ pc[1] = "returned"
    /\ InRange(timestamp[1])
    /\ Len(probes[1]) >= 2
    /\ <<timestamp[1], result[1]>> \in resolved

\* block B is the last block at or before T
LastAtOrBefore(T, B) ==
    /\ B \in 0..ChainHead
    /\ TimestampOf(B) <= T
    /\ B = ChainHead \/ TimestampOf(B + 1) > T

\* block B is the first block at or after T
FirstAtOrAfter(T, B) ==
    /\ B \in 0..ChainHead
    /\ TimestampOf(B) >= T
    /\ \A k \in 0..ChainHead : TimestampOf(k) >= T => B <= k

C3_BoundaryWithoutSearch ==
    \A p \in Procs :
        (/\ pc[p] \in {"returned", "threw"}
         /\ Served
         /\ ChainHead >= 1
         /\ ~InRange(timestamp[p]))
        => /\ pc[p] = "returned"
           /\ result[p] = IF timestamp[p] < TimestampOf(1) THEN 1 ELSE ChainHead
           /\ probes[p] = <<>>
           /\ timestamp[p] \notin DOMAIN state.checkedBlocks
           /\ \A i \in 1..Len(log[p]) : log[p][i].block \in {Latest, 1}

\* a later call of the session, for the head's own timestamp, returned the
\* head from the cached boundaries
C3_Witness ==
    /\ calls >= 2
    /\ pc[1] = "returned"
    /\ ChainHead >= 2
    /\ timestamp[1] = TimestampOf(ChainHead)
    /\ TimestampOf(ChainHead - 1) = timestamp[1]
    /\ result[1] = ChainHead
    /\ log[1] = <<>>

\* C4 as stated: when the node answers every request of a call, the call
\* does not end in an error, and it fetches at most as many candidates as
\* the chain has blocks.
C4_TerminatesWithinNProbes ==
    \A p \in Procs :
        (Served /\ error[p] # "UpstreamError")
        => (pc[p] # "threw" /\ Len(probes[p]) <= Len(chain))

\* a <= b on JavaScript numbers
Le(a, b) == a # NaN /\ b # NaN /\ a <= b

\* C5: of two targets a session resolved on the chain, in either order, the
\* smaller target got the smaller or the same block number.
C5_Monotone ==
    WellFormed =>
        \A r1, r2 \in resolved : r1[1] < r2[1] => Le(r1[2], r2[2])

\* a session resolved a target to a block after block 1 and then, by search,
\* a smaller target inside the chain to a smaller block
C5_Witness ==
    /\ WellFormed
    /\ pc[1] = "returned"
    /\ InRange(timestamp[1])
    /\ probes[1] # <<>>
    /\ \E r \in resolved :
          /\ r[1] > timestamp[1]
          /\ r[2] > result[1]

\* the requests of p's call number i and j ask for the same block
SameBlock(p, i, j) ==
    /\ Exists(log[p][i].block)
    /\ Exists(log[p][j].block)
    /\ Named(log[p][i].block) = Named(log[p][j].block)

\* C6 as stated: within one call no block of the chain is requested from the
\* node twice, whichever identifier is used.
C6_NoBlockFetchedTwice ==
    \A p \in Procs : \A i, j \in 1..Len(log[p]) : i < j => ~SameBlock(p, i, j)

\* C6: within one call no identifier is requested from the node twice, and
\* two requests of a call ask for the same block only when it is the head,
\* requested once as 'latest' and once by its number.
C6_NoIdentifierFetchedTwice ==
    \A p \in Procs : \A i, j \in 1..Len(log[p]) :
        i < j =>
            /\ log[p][i].block # log[p][j].block
            /\ SameBlock(p, i, j) => Latest \in {log[p][i].block, log[p][j].block}

\* a call returned after it requested the head as 'latest' and by its number,
\* and fetched block 1, which it had requested before, as a candidate
C6_Witness ==
    /\ pc[1] = "returned"
    /\ ChainHead > 1
    /\ \E i, j \in 1..Len(log[1]) :
          log[1][i].block = Latest /\ log[1][j].block = ChainHead
    /\ \E i \in 1..Len(log[1]) : log[1][i].block = 1
    /\ \E k \in 1..Len(probes[1]) : probes[1][k] = 1

\* C7 as stated, its consequence: over a session the node is asked for each
\* identifier at most once.
C7_EachIdentifierInvokedOnce == \A id \in DOMAIN invoked : invoked[id] <= 1

\* the node is asked for an identifier that state.cachedBlocks has
FetchesCached ==
    \E id \in DOMAIN invoked' :
        invoked'[id] > Count(invoked, id) /\ id \in DOMAIN state'.cachedBlocks

\* a step changes state.cachedBlocks or state.requests
CacheChanges ==
    state'.cachedBlocks # state.cachedBlocks \/ state'.requests # state.requests

\* the fetchBlockInfo call a caller awaits was a cache hit
HitPending(p) == pc[p] \in {"latest", "first", "predicted", "previous", "next"}
                 /\ awaiting[p].hit

\* C7: in sequential use the node is asked for an identifier only when
\* state.cachedBlocks lacks it; a cache hit yields the stored Block and
\* changes neither state.cachedBlocks nor state.requests; each answer the
\* node gave is stored under an identifier of its own, so state.requests is
\* the number of cached identifiers.
C7_CacheBeforeFetch ==
    /\ [](\A p \in Procs : HitPending(p) =>
             /\ awaiting[p].block \in DOMAIN state.cachedBlocks
             /\ awaiting[p].value = state.cachedBlocks[awaiting[p].block])
    /\ [](state.requests = Cardinality(DOMAIN state.cachedBlocks))
    /\ [][~FetchesCached]_vars
    /\ [][HitPending(1) => ~CacheChanges]_vars

\* the second call of a session asked for a block the first call had cached
C7_Witness ==
    /\ calls = 2
    /\ HitPending(1)
    /\ state.requests >= 2
    /\ awaiting[1].block \in DOMAIN invoked
    /\ invoked[awaiting[1].block] = 1

\* C8 as stated: with overlapping callers the node is never asked twice for
\* an identifier it has a block for, and state.requests is the number of
\* cached identifiers.
C8_NoDuplicateFetchWhenConcurrent ==
    /\ \A id \in DOMAIN invoked : Exists(id) => invoked[id] <= 1
    /\ state.requests = Cardinality(DOMAIN state.cachedBlocks)

\* a Block with a field that is not a number
Unparsed(blk) == blk.block = NaN \/ blk.timestamp = NaN

\* C9 as stated: no Block built from a payload whose number or timestamp
\* does not parse is stored in state.cachedBlocks, and no call returns the
\* block number of one.
C9_MalformedPayloadRejected ==
    /\ \A id \in DOMAIN state.cachedBlocks : ~Unparsed(state.cachedBlocks[id])
    /\ \A r \in resolved : r[2] # NaN

\* C10: a request of a call that the node rejected is the last request of
\* that call, and the call has ended with the error and without a result.
C10_FailureEndsTheCall ==
    \A p \in Procs : \A i \in 1..Len(log[p]) :
        log[p][i].answer # "ok" /\ log[p][i].answer # "pending" =>
            /\ i = Len(log[p])
            /\ pc[p] = "threw"
            /\ error[p] = "UpstreamError"
            /\ result[p] = Undef
            /\ awaiting[p] = NoFetch

\* a call failed in mid-search: the node rejected the request for a candidate
C10_Witness ==
    /\ pc[1] = "threw"
    /\ error[1] = "UpstreamError"
    /\ fault = "failed"
    /\ Len(probes[1]) >= 2
    /\ Len(log[1]) >= 3
    /\ log[1][Len(log[1])].answer = "throw"

\* C11 as stated: once the latest block is known to have a number <= 1, no
\* average block time is stored and no call returns a block.
C11_ShortChainRejected ==
    (state.latestBlock # NoBlock /\ Le(state.latestBlock.block, 1)) =>
        /\ state.averageBlockTime = NoAverage
        /\ \A p \in Procs : pc[p] # "returned"

\* C12 as stated: state.averageBlockTime is undefined or a finite number
\* greater than 0.
C12_AveragePositive ==
    \/ state.averageBlockTime = NoAverage
    \/ state.averageBlockTime[1] > 0 /\ state.averageBlockTime[2] > 0

\* C18 as stated: the candidates a call fetched, the first guess included,
\* are pairwise different block numbers.
C18_EachBlockProbedOnce ==
    \A p \in Procs : \A i, j \in 1..Len(probes[p]) :
        i < j => probes[p][i] # probes[p][j]

\* C19 as stated: the block number calculateNextBlock has just returned is
\* an element of state.checkedBlocks[timestamp].
C19_ReturnedIsRecorded ==
    \A p \in Procs :
        pc[p] = "next" => Includes(Checked(state, timestamp[p]), awaiting[p].block)

\* C13: every block number calculateNextBlock returned, for whatever current
\* block, non-zero skip and history, lies in 1 .. state.latestBlock.block.
C13_NextBlockInRange ==
    unit.of = "calculateNextBlock" =>
        \A i \in 1..Len(unit.returned) :
            unit.returned[i] \in 1..unit.state.latestBlock.block

\* calculateNextBlock returned 1 for a candidate below 1, and the latest
\* block for a candidate that was, or was capped to, the latest block
C13_Witness ==
    /\ unit.of = "calculateNextBlock"
    /\ unit.state.latestBlock.block > 1
    /\ \E i, j \in 1..Len(unit.returned) :
          unit.returned[i] = 1 /\ unit.returned[j] = unit.state.latestBlock.block
    /\ \E k \in 1..Len(Checked(unit.state, unit.timestamp)) :
          Checked(unit.state, unit.timestamp)[k] < 1

\* C14 as stated: the block numbers calculateNextBlock returned for one
\* timestamp are pairwise different.
C14_NeverReturnsABlockAgain ==
    unit.of = "calculateNextBlock" =>
        \A i, j \in 1..Len(unit.returned) :
            i < j => unit.returned[i] # unit.returned[j]

\* C15 as stated: no call of calculateNextBlock recurses without end.
C15_NextBlockTerminates == unit.of = "calculateNextBlock" => ~unit.overflow

\* C17 as stated: getBalanceOf posts one eth_call whose 'to' is the contract
\* address and whose data is the selector, the padded account address and
\* the padded token id.
C17_BalanceOfPayload ==
    (unit.of = "getBalanceOf" /\ unit.outcome # "pending") =>
        /\ Len(unit.posted) = 1
        /\ unit.posted[1].method = "eth_call"
        /\ unit.posted[1].params[1].to = unit.contractAddress
        /\ unit.posted[1].params[1].data =
              Erc1155BalanceOf
              \o PadStart(Substring(unit.accountAddress, 2), PadWidth, 0)
              \o PadStart(Substring(unit.tokenId, 2), PadWidth, 0)

\* -1, 0 or 1 as x is negative, zero or positive
Sign(x) == IF x < 0 THEN 0 - 1 ELSE IF x > 0 THEN 1 ELSE 0

\* C20 as stated: with an average block time that is zero or undefined the
\* skip is +1 or -1, with the sign of timestamp - predictedBlock.timestamp.
C20_UnitSkipWithoutAverage ==
    (/\ unit.of = "findOptimalBlock"
     /\ unit.skip # Undef
     /\ unit.state.averageBlockTime \in {NoAverage, <<0, 1>>}) =>
        /\ unit.skip \in {0 - 1, 1}
        /\ unit.timestamp # unit.predictedBlock.timestamp =>
              unit.skip = Sign(unit.timestamp - unit.predictedBlock.timestamp)

\* caller p took the step
Acts(p) == pc'[p] # pc[p] \/ probes'[p] # probes[p] \/ log'[p] # log[p]

\* the step changed state.checkedBlocks[T]
HistoryChanges(T) ==
    \/ (T \in DOMAIN state'.checkedBlocks) # (T \in DOMAIN state.checkedBlocks)
    \/ Checked(state', T) # Checked(state, T)

\* C16: with overlapping calls, state.checkedBlocks[T] is changed only by a
\* step of a call whose timestamp is T; the history of every other
\* timestamp is as it was.
C16_HistoryOfOtherTimestampsUnchanged ==
    [][\A T \in Targets :
          HistoryChanges(T) => \E p \in Procs : Acts(p) /\ timestamp'[p] = T]_vars

\* two calls for different timestamps are both in mid-search, each with a
\* history of its own, and the first has recorded a candidate in its history
C16_Witness ==
    /\ pc[1] = "next"
    /\ pc[2] \in {"predicted", "previous", "next"}
    /\ timestamp[1] # timestamp[2]
    /\ {timestamp[1], timestamp[2]} \subseteq DOMAIN state.checkedBlocks
    /\ Checked(state, timestamp[1]) # <<>>

\* C21 as stated: after the step from a candidate to the next block the
\* average block time is |difference of the timestamps| / |difference of
\* the block numbers|, and it is the average stored before when the two
\* block numbers are equal.
C21_AverageAfterProbe ==
    (unit.of = "averageBlockTime" /\ unit.updated) =>
        unit.state.averageBlockTime =
            IF unit.predictedBlock.block = unit.nextPredictedBlock.block
                THEN unit.before
                ELSE Ratio(Abs(unit.predictedBlock.timestamp
                               - unit.nextPredictedBlock.timestamp),
                           Abs(unit.predictedBlock.block
                               - unit.nextPredictedBlock.block))

\* g is the least integer with g * avg >= x, for a fraction avg > 0
IsCeilOfQuotient(g, x, avg) ==
    /\ (g - 1) * avg[1] < x * avg[2]
    /\ x * avg[2] <= g * avg[1]

\* the average block time is a finite number > 0
PositiveAverage(s) == s.averageBlockTime[1] > 0 /\ s.averageBlockTime[2] > 0

\* C22: when a call fetches its first candidate, the history of its
\* timestamp T is empty and, the stored average being a finite number > 0,
\* the block asked for is ceil((T - firstBlock.timestamp) / averageBlockTime)
\* for the average stored in the state.
C22_FirstCandidateByInterpolation ==
    \A p \in Procs :
        (pc[p] = "predicted" /\ WellFormed) =>
            /\ timestamp[p] \in DOMAIN state.checkedBlocks
            /\ state.checkedBlocks[timestamp[p]] = <<>>
            /\ ~Lt(timestamp[p], state.firstBlock.timestamp)
            /\ ~Ge(timestamp[p], state.latestBlock.timestamp)
            /\ PositiveAverage(state) =>
                  IsCeilOfQuotient(awaiting[p].block,
                                   timestamp[p] - state.firstBlock.timestamp,
                                   state.averageBlockTime)

\* the second call of a session, for a timestamp the first call resolved,
\* fetches its first candidate with an average that the search of the first
\* call left behind
C22_Witness ==
    /\ pc[1] = "predicted"
    /\ WellFormed
    /\ calls = 2
    /\ PositiveAverage(state)
    /\ state.averageBlockTime # BoundaryAverage(state)
    /\ \E r \in resolved : r[1] = timestamp[1]

\* C23: once a call of the session has returned, no step changes
\* state.firstBlock or state.latestBlock or asks the node for 'latest' or
\* for block 1, also after the chain has grown.
C23_BoundariesPopulatedOnce ==
    [][resolved # {} =>
          /\ state'.firstBlock = state.firstBlock
          /\ state'.latestBlock = state.latestBlock
          /\ Count(invoked', Latest) = Count(invoked, Latest)
          /\ Count(invoked', 1) = Count(invoked, 1)]_vars

\* the chain grew after the first call returned, and the second call, which
\* had to go through initializeBoundaries again, has returned the old head
C23_Witness ==
    /\ calls = 2
    /\ pc[1] = "returned"
    /\ Falsy(state.averageBlockTime)
    /\ ChainHead > state.latestBlock.block
    /\ result[1] = state.latestBlock.block
    /\ Cardinality(resolved) = 2

\* the number of requests made to the node in the session
RECURSIVE SumOver(_, _)
SumOver(f, ids) ==
    IF ids = {} THEN 0
    ELSE LET id == CHOOSE i \in ids : TRUE
         IN  f[id] + SumOver(f, ids \ {id})

Invocations == SumOver(invoked, DOMAIN invoked)

\* C24 as stated: when no request is pending, state.requests is the number
\* of requests made to the node so far, answered or rejected.
C24_CountsEveryInvocation ==
    (\A p \in Procs : Idle(p)) => state.requests = Invocations

\* the step is the arrival of the node's answer to a pending request
AnswerArrives ==
    LET k == Len(log[1])
    IN  /\ k > 0
        /\ log[1][k].answer = "pending"
        /\ Len(log'[1]) >= k
        /\ log'[1][k].answer = "ok"

\* C24: state.requests never decreases; it grows by one exactly in the
\* steps in which the node's answer to a request arrives, and not when a
\* request is rejected, so it never exceeds the number of requests made.
C24_CountsAnsweredRequests ==
    /\ [][state'.requests = state.requests + (IF AnswerArrives THEN 1 ELSE 0)]_vars
    /\ [](state.requests <= Invocations)

\* a call failed on a rejected request after two requests had been answered
C24_Witness ==
    /\ pc[1] = "threw"
    /\ error[1] = "UpstreamError"
    /\ state.requests >= 2
    /\ Invocations > state.requests

\* C25: on a chain with at least two blocks, every block number requested
\* from the node (the tag 'latest' aside) is >= 0 and at most
\* latestBlock.block, in any sequence of calls on the State.
C25_RequestsWithinChain ==
    (Served /\ state.latestBlock # NoBlock /\ ChainHead >= 1) =>
        \A id \in DOMAIN invoked :
            id # Latest => (id >= 0 /\ id <= state.latestBlock.block)

\* C26: when calls for different timestamps overlap on one State, every
\* caller whose call for a target T between the boundaries has returned
\* holds a block B with timestamp(B) >= T and timestamp(B - 1) < T.
C26_OverlappingCallsReturnOptimal ==
    \A p \in Procs :
        (pc[p] = "returned" /\ InRange(timestamp[p])) =>
            Optimal(timestamp[p], result[p])

\* caller 1 returned from a search of several candidates that ran inside
\* caller 2's call: caller 2 fetched 'latest' for both and is still searching
C26_Witness ==
    /\ pc[1] = "returned"
    /\ InRange(timestamp[1])
    /\ Len(probes[1]) >= 2
    /\ pc[2] \in {"predicted", "previous", "next"}
    /\ timestamp[2] # timestamp[1]
    /\ \E i \in DOMAIN log[2] : log[2][i].block = Latest
    /\ \A i \in DOMAIN log[1] : log[1][i].block # Latest

\* the Block the node holds under identifier k
HeldUnder(k) == Block(Named(k), TimestampOf(Named(k)))

\* C27: with one caller, an entry enters state.cachedBlocks only in the
\* step in which the node's answer to a request arrives, one entry per
\* answer and none for a rejected request; on a node whose answers are well
\* formed every entry is the block the node holds under that identifier;
\* and an entry, once set, is never changed or removed.
C27_CacheInsertOnce ==
    /\ [](\A k \in DOMAIN state.cachedBlocks :
            /\ k \in DOMAIN invoked
            /\ WellFormed =>
                  Exists(k) /\ state.cachedBlocks[k] = HeldUnder(k))
    /\ [][/\ \A k \in DOMAIN state.cachedBlocks :
                /\ k \in DOMAIN state'.cachedBlocks
                /\ state'.cachedBlocks[k] = state.cachedBlocks[k]
          /\ state'.cachedBlocks # state.cachedBlocks =>
                /\ AnswerArrives
                /\ DOMAIN state'.cachedBlocks =
                      DOMAIN state.cachedBlocks \cup {awaiting[1].block}]_vars

\* a request was rejected in the second call of a session whose cache holds
\* the boundaries and a candidate
C27_Witness ==
    /\ calls = 2
    /\ pc[1] = "threw"
    /\ error[1] = "UpstreamError"
    /\ log[1] # <<>>
    /\ log[1][Len(log[1])].answer = "throw"
    /\ Cardinality(DOMAIN state.cachedBlocks) >= 3

\* C28: when findOptimalBlock moves from a candidate that is not optimal to
\* the next block, the next block's number is lower than the candidate's
\* if the candidate's timestamp is >= T and higher if it is < T.
C28_NextBlockTowardsTarget ==
    (Served /\ pc[1] = "next") =>
        IF Ge(predictedBlock[1].timestamp, timestamp[1])
        THEN awaiting[1].block < predictedBlock[1].block
        ELSE awaiting[1].block > predictedBlock[1].block

\* C29: when the second call of a session is for a target T between the
\* boundaries that the session has resolved, it returns, and every block
\* returned for T is the same.
C29_SameTargetTwice ==
    (/\ calls = 2
     /\ Idle(1)
     /\ InRange(timestamp[1])
     /\ \E r \in resolved : r[1] = timestamp[1]) =>
        /\ pc[1] = "returned"
        /\ \A r \in resolved : r[1] = timestamp[1] => r[2] = result[1]

\* C30 as stated: format.cleanHexString throws the 'Invalid hex string
\* format' error for a string that does not start with '0x'; for one that
\* does it returns '0x' followed by the rest without its leading zeros, and
\* '0x0' when nothing is left, so never the bare '0x'; and applied to its
\* own result it returns that result.
C30_CleanHexString ==
    (unit.of = "cleanHexString" /\ unit.first # NotCalled) =>
        IF ~StartsWith0x(unit.hexString)
        THEN /\ unit.first.outcome = "threw"
             /\ unit.first.error =
                   "[format/cleanHexString] error: Invalid hex string format"
        ELSE LET digits == StripZeros(Substring(unit.hexString, 2))
             IN  /\ unit.first.outcome = "returned"
                 /\ unit.first.value =
                       Str0x(IF digits = <<>> THEN <<0>> ELSE digits)
                 /\ unit.first.value # Str0x(<<>>)
                 /\ unit.second # NotCalled => unit.second = unit.first

====
